---- MODULE Spec2Model ----
(***************************************************************************)
(* Telemetry generator of the balloon repository: the MPU6050 and MPL115A2 *)
(* I2C drivers, the TelemetryPacket encoder and the acquisition loop of    *)
(* main.                                                                   *)
(*                                                                         *)
(* Conventions.                                                            *)
(*  - Option<T> is a sequence of length at most one: None is <<>>, Some(x) *)
(*    is <<x>>.                                                            *)
(*  - Result<T, E> is a record [ok, val, err]; val is an Option.           *)
(*  - An f32 is a term [f, args]: f names the arithmetic the code applied  *)
(*    and args are the integers it was applied to.  Two terms are equal    *)
(*    exactly when the same arithmetic was applied to the same inputs;     *)
(*    rounding is not modelled.                                            *)
(*  - A driver call runs on a machine m = [self, log, nops, dev]: self are *)
(*    the fields of the driver struct, log is the sequence of bus          *)
(*    operations and sleeps the call has performed so far, nops the number *)
(*    of bus operations among them, dev holds the values last written      *)
(*    successfully to the device's range registers.                        *)
(*  - The bus is the environment.  Its behaviour during one call is an     *)
(*    input env = [failAt, seed, who]: the failAt-th bus operation of the  *)
(*    call fails (0: none does), the bytes read depend on seed and on the  *)
(*    register, and who is the content of the WHO_AM_I register.           *)
(***************************************************************************)
EXTENDS Integers, Sequences, FiniteSets, TLC

VARIABLES
    pc,               \* position of main
    barometer,        \* Option<MPL115A2>: main's `barometer`
    motion_sensor,    \* Option<MPU6050>: main's `motion_sensor`
    dev,              \* range registers of the MPU6050 device
    pressure_reading, \* Option<PressureReading> of the current cycle
    motion_reading,   \* Option<MotionReading> of the current cycle
    packet,           \* Option<TelemetryPacket> of the current cycle
    wire,             \* Option<bytes>: the datagram handed to send_to
    baro_log,         \* bus operations of the last call on the barometer
    motion_log,       \* bus operations of the last call on the motion sensor
    ret,              \* result of the last driver call
    call,             \* the last driver call and its arguments
    cycle,            \* number of the current cycle
    built,            \* packets constructed in the current cycle
    sends,            \* send_to attempts in the current cycle
    send_ok,          \* outcome of the last send_to
    baro_failed,      \* failed barometer reads so far
    motion_failed,    \* failed motion reads so far
    motion_init,      \* what MPU6050::new did and returned
    buffer,           \* the two bytes a 16-bit read received, MSB first
    decoded           \* Option<i16>: the value decoded from buffer

vars == <<pc, barometer, motion_sensor, dev, pressure_reading, motion_reading,
          packet, wire, baro_log, motion_log, ret, call, cycle, built, sends,
          send_ok, baro_failed, motion_failed, motion_init, buffer, decoded>>

-----------------------------------------------------------------------------
(* Bounds of the model *)

\* cycles of the loop that are counted
MaxCycles == 2
\* failed reads of a sensor that are counted
MaxFails == 2
\* largest sample count passed to calibrate
MaxSamples == 2
\* largest seed of the data the bus returns
MaxSeed == 0
\* largest seed of the random generator
MaxRng == 0

-----------------------------------------------------------------------------
(* Option and Result *)

None == <<>>

Some(x) == <<x>>

Ok(x) == [ok |-> TRUE, val |-> <<x>>, err |-> ""]

Err(e) == [ok |-> FALSE, val |-> <<>>, err |-> e]

\* the unit value ()
Unit == "()"

\* the error of a failed bus operation (rppal::i2c::Error, boxed)
IoError == "i2c"

F32(f, args) == [f |-> f, args |-> args]

-----------------------------------------------------------------------------
(* Bit operations on naturals *)

RECURSIVE BitOr(_, _)
BitOr(a, b) ==
    IF a = 0 THEN b
    ELSE IF b = 0 THEN a
    ELSE (IF a % 2 = 1 \/ b % 2 = 1 THEN 1 ELSE 0) + 2 * BitOr(a \div 2, b \div 2)

\* the i16 with the 16-bit pattern u
AsI16(u) == IF u % 65536 >= 32768 THEN (u % 65536) - 65536 ELSE u % 65536

\* the 16-bit pattern of the i16 v
Bits16(v) == (v + 65536) % 65536

\* the values of a u8
Byte == 0..255

\* the word taken as unsigned: ((msb as u16) << 8) | (lsb as u16)
Decode16_Unsigned(msb, lsb) == BitOr((msb * 256) % 65536, lsb)

\* ((msb as i16) << 8) | (lsb as i16)
Decode16(msb, lsb) ==
    AsI16(BitOr(Bits16(AsI16((Bits16(msb) * 256) % 65536)), Bits16(lsb)))

-----------------------------------------------------------------------------
(* MPU6050 constants *)

MPU6050_ADDRESS == 104
REGISTER_SMPLRT_DIV == 25
REGISTER_CONFIG == 26
REGISTER_GYRO_CONFIG == 27
REGISTER_ACCEL_CONFIG == 28
REGISTER_ACCEL_XOUT_H == 59
REGISTER_ACCEL_YOUT_H == 61
REGISTER_ACCEL_ZOUT_H == 63
REGISTER_TEMP_OUT_H == 65
REGISTER_GYRO_XOUT_H == 67
REGISTER_GYRO_YOUT_H == 69
REGISTER_GYRO_ZOUT_H == 71
REGISTER_PWR_MGMT_1 == 107
REGISTER_WHO_AM_I == 117
PWR_MGMT_1_RESET == 128
PWR_MGMT_1_CLKSEL_PLL_X == 1

\* LSB/g
ACCEL_SENSITIVITY_2G == 16384
ACCEL_SENSITIVITY_4G == 8192
ACCEL_SENSITIVITY_8G == 4096
ACCEL_SENSITIVITY_16G == 2048

\* LSB/(deg/s), in tenths: 131.0, 65.5, 32.8, 16.4
GYRO_SENSITIVITY_250DPS == 1310
GYRO_SENSITIVITY_500DPS == 655
GYRO_SENSITIVITY_1000DPS == 328
GYRO_SENSITIVITY_2000DPS == 164

\* the enum discriminants, `sensitivity as u8`
AccelSensitivity == {0, 8, 16, 24}

GyroSensitivity == {0, 8, 16, 24}

AFS_SEL_2G == 0
FS_SEL_250DPS == 0

\* the expected content of WHO_AM_I
WHO_AM_I_EXPECTED == 104

\* the match of set_accel_sensitivity
AccelScaleOf(sensitivity) ==
    CASE sensitivity = 0 -> ACCEL_SENSITIVITY_2G
      [] sensitivity = 8 -> ACCEL_SENSITIVITY_4G
      [] sensitivity = 16 -> ACCEL_SENSITIVITY_8G
      [] sensitivity = 24 -> ACCEL_SENSITIVITY_16G

\* the match of set_gyro_sensitivity
GyroScaleOf(sensitivity) ==
    CASE sensitivity = 0 -> GYRO_SENSITIVITY_250DPS
      [] sensitivity = 8 -> GYRO_SENSITIVITY_500DPS
      [] sensitivity = 16 -> GYRO_SENSITIVITY_1000DPS
      [] sensitivity = 24 -> GYRO_SENSITIVITY_2000DPS

-----------------------------------------------------------------------------
(* The bus *)

\* the bus operations among the entries of a log (the others are sleeps)
BusOps(log) == SelectSeq(log, LAMBDA e : e.op # "sleep")

\* whether the next bus operation of the call succeeds
BusOk(env, m) == m.nops + 1 # env.failAt

\* thread::sleep(Duration::from_millis(ms))
Sleep(m, ms) ==
    [m EXCEPT !.log = Append(@, [op |-> "sleep", reg |-> 0, val |-> ms, ok |-> TRUE])]

\* i2c.set_slave_address(address)
I2cSetSlaveAddress(env, m, address) ==
    LET ok == BusOk(env, m)
        m2 == [m EXCEPT !.log = Append(@, [op |-> "set_slave_address", reg |-> 0,
                                           val |-> address, ok |-> ok]),
                        !.nops = @ + 1]
    IN  [m |-> m2, r |-> IF ok THEN Ok(Unit) ELSE Err(IoError)]

\* the j-th byte the device returns when read from register reg
BusData(env, reg, j) ==
    IF reg = REGISTER_WHO_AM_I /\ j = 1 THEN env.who
    ELSE (env.seed * 97 + reg * 7 + j * 13 + 120) % 256

\* the device's range registers after a successful write of value to reg
DevWrite(d, reg, value) ==
    IF reg \in DOMAIN d THEN [d EXCEPT ![reg] = value] ELSE d

\* no range register written yet
DevBlank == [r \in {REGISTER_GYRO_CONFIG, REGISTER_ACCEL_CONFIG} |-> -1]

\* self.i2c.write(&[register, value])
I2cWrite(env, m, register, value) ==
    LET ok == BusOk(env, m)
        m2 == [m EXCEPT !.log = Append(@, [op |-> "write", reg |-> register,
                                           val |-> value, ok |-> ok]),
                        !.nops = @ + 1,
                        !.dev = IF ok THEN DevWrite(@, register, value) ELSE @]
    IN  [m |-> m2, r |-> IF ok THEN Ok(Unit) ELSE Err(IoError)]

\* self.i2c.write_read(&[register], &mut buffer) with an n-byte buffer
I2cWriteRead(env, m, register, n) ==
    LET ok == BusOk(env, m)
        m2 == [m EXCEPT !.log = Append(@, [op |-> "write_read", reg |-> register,
                                           val |-> n, ok |-> ok]),
                        !.nops = @ + 1]
    IN  [m |-> m2,
         r |-> IF ok THEN Ok([j \in 1..n |-> BusData(env, register, j)])
               ELSE Err(IoError)]

-----------------------------------------------------------------------------
(* The `?` operator: c is the outcome [m, r] of a call; an Err leaves the      *)
(* enclosing function at once, an Ok goes on with K                            *)

Try(c, K(_)) == IF ~c.r.ok THEN c ELSE K(c)

\* `let c = ..;` followed by K
Let(c, K(_)) == K(c)

\* the value of a successful outcome
Val(c) == c.r.val[1]

-----------------------------------------------------------------------------
(* MPU6050 driver *)

write_register(env, m, register, value) == I2cWrite(env, m, register, value)

read_register(env, m, register) ==
    Try(I2cWriteRead(env, m, register, 1),
        LAMBDA c : [m |-> c.m, r |-> Ok(Val(c)[1])])

read_register_16(env, m, register) ==
    Try(I2cWriteRead(env, m, register, 2),
        LAMBDA c : [m |-> c.m, r |-> Ok(Decode16(Val(c)[1], Val(c)[2]))])

\* self.accel_sensitivity = sensitivity; self.accel_scale = match sensitivity { .. }
AssignAccel(m, sensitivity) ==
    [m EXCEPT !.self.accel_sensitivity = sensitivity,
              !.self.accel_scale = AccelScaleOf(sensitivity)]

\* self.gyro_sensitivity = sensitivity; self.gyro_scale = match sensitivity { .. }
AssignGyro(m, sensitivity) ==
    [m EXCEPT !.self.gyro_sensitivity = sensitivity,
              !.self.gyro_scale = GyroScaleOf(sensitivity)]

set_accel_sensitivity(env, m, sensitivity) ==
    Try(write_register(env, AssignAccel(m, sensitivity), REGISTER_ACCEL_CONFIG,
                       sensitivity),
        LAMBDA w : [m |-> w.m, r |-> Ok(Unit)])

set_gyro_sensitivity(env, m, sensitivity) ==
    Try(write_register(env, AssignGyro(m, sensitivity), REGISTER_GYRO_CONFIG,
                       sensitivity),
        LAMBDA w : [m |-> w.m, r |-> Ok(Unit)])

\* (raw as f32 / self.accel_scale) * 9.80665
AccelValue(raw, scale) == F32("accel_ms2", <<raw, scale>>)

\* raw as f32 / self.gyro_scale
GyroValue(raw, scale) == F32("gyro_dps", <<raw, scale>>)

\* (temp_raw as f32 / 340.0) + 36.53
TempValue(raw) == F32("mpu_temp_c", <<raw>>)

read_accelerometer(env, m) ==
    Try(read_register_16(env, m, REGISTER_ACCEL_XOUT_H), LAMBDA x :
    Try(read_register_16(env, x.m, REGISTER_ACCEL_YOUT_H), LAMBDA y :
    Try(read_register_16(env, y.m, REGISTER_ACCEL_ZOUT_H), LAMBDA z :
        [m |-> z.m,
         r |-> Ok([x |-> AccelValue(Val(x), z.m.self.accel_scale),
                   y |-> AccelValue(Val(y), z.m.self.accel_scale),
                   z |-> AccelValue(Val(z), z.m.self.accel_scale)])])))

read_gyroscope(env, m) ==
    Try(read_register_16(env, m, REGISTER_GYRO_XOUT_H), LAMBDA x :
    Try(read_register_16(env, x.m, REGISTER_GYRO_YOUT_H), LAMBDA y :
    Try(read_register_16(env, y.m, REGISTER_GYRO_ZOUT_H), LAMBDA z :
        [m |-> z.m,
         r |-> Ok([x |-> GyroValue(Val(x), z.m.self.gyro_scale),
                   y |-> GyroValue(Val(y), z.m.self.gyro_scale),
                   z |-> GyroValue(Val(z), z.m.self.gyro_scale)])])))

read_temperature(env, m) ==
    Try(read_register_16(env, m, REGISTER_TEMP_OUT_H),
        LAMBDA t : [m |-> t.m, r |-> Ok(TempValue(Val(t)))])

\* the MotionReading of read_all
MotionReading(accelerometer, gyroscope, temperature) ==
    [accelerometer |-> accelerometer, gyroscope |-> gyroscope,
     temperature |-> temperature]

\* a read_all that puts a default in the place of a failed temperature read
read_all_Partial(env, m) ==
    Try(read_accelerometer(env, m), LAMBDA a :
    Try(read_gyroscope(env, a.m), LAMBDA g :
    Let(read_temperature(env, g.m), LAMBDA t :
        [m |-> t.m,
         r |-> Ok(MotionReading(Val(a), Val(g),
                                IF t.r.ok THEN Val(t) ELSE TempValue(0)))])))

read_all(env, m) ==
    Try(read_accelerometer(env, m), LAMBDA a :
    Try(read_gyroscope(env, a.m), LAMBDA g :
    Try(read_temperature(env, g.m), LAMBDA t :
        [m |-> t.m, r |-> Ok(MotionReading(Val(a), Val(g), Val(t)))])))

\* 0.0, the start of a running sum
F32Zero == F32("sum", <<>>)

\* acc += v
F32Add(acc, v) == F32("sum", acc.args \o v.args)

\* sum /= n as f32
F32Div(sum, n) == F32("mean", <<n>> \o sum.args)

\* mean -= 9.80665
F32SubGravity(mean) == F32("mean_minus_g", mean.args)

\* the number of readings a sum, or a mean made of it, was accumulated over
Summands(v) == IF v.f = "sum" THEN Len(v.args) \div 2 ELSE (Len(v.args) - 1) \div 2

Vec3Zero == [x |-> F32Zero, y |-> F32Zero, z |-> F32Zero]

Vec3Add(acc, v) ==
    [x |-> F32Add(acc.x, v.x), y |-> F32Add(acc.y, v.y), z |-> F32Add(acc.z, v.z)]

Vec3Div(acc, n) ==
    [x |-> F32Div(acc.x, n), y |-> F32Div(acc.y, n), z |-> F32Div(acc.z, n)]

\* the tail of calibrate: the divisions by `samples` and the gravity correction
CalibrateFinish(accel_offset, gyro_offset, samples) ==
    <<[Vec3Div(accel_offset, samples) EXCEPT !.z = F32SubGravity(@)],
      Vec3Div(gyro_offset, samples)>>

\* a loop of calibrate that skips a failed read and goes on
RECURSIVE CalibrateLoop_SkipFailed(_, _, _, _, _, _)
CalibrateLoop_SkipFailed(env, m, accel_offset, gyro_offset, i, samples) ==
    IF i >= samples
    THEN [m |-> m, r |-> Ok(CalibrateFinish(accel_offset, gyro_offset, samples))]
    ELSE Let(read_all(env, m), LAMBDA rd :
            IF ~rd.r.ok
            THEN CalibrateLoop_SkipFailed(env, rd.m, accel_offset, gyro_offset,
                                          i + 1, samples)
            ELSE CalibrateLoop_SkipFailed(env, Sleep(rd.m, 10),
                                          Vec3Add(accel_offset, Val(rd).accelerometer),
                                          Vec3Add(gyro_offset, Val(rd).gyroscope),
                                          i + 1, samples))

\* `for i in 0..samples { .. }` of calibrate from iteration i on, and what follows it
RECURSIVE CalibrateLoop(_, _, _, _, _, _)
CalibrateLoop(env, m, accel_offset, gyro_offset, i, samples) ==
    IF i >= samples
    THEN [m |-> m, r |-> Ok(CalibrateFinish(accel_offset, gyro_offset, samples))]
    ELSE Try(read_all(env, m), LAMBDA rd :
             CalibrateLoop(env, Sleep(rd.m, 10),
                           Vec3Add(accel_offset, Val(rd).accelerometer),
                           Vec3Add(gyro_offset, Val(rd).gyroscope),
                           i + 1, samples))

calibrate_SkipFailed(env, m, samples) ==
    CalibrateLoop_SkipFailed(env, m, Vec3Zero, Vec3Zero, 0, samples)

calibrate(env, m, samples) == CalibrateLoop(env, m, Vec3Zero, Vec3Zero, 0, samples)

\* the error of a failed identity check
WhoAmIError == "Invalid WHO_AM_I value"

\* an identity check that reports a wrong identity as a bus error
CheckWhoAmI_Generic(who) ==
    IF Val(who) # WHO_AM_I_EXPECTED
    THEN [m |-> who.m, r |-> Err(IoError)]
    ELSE [m |-> who.m, r |-> Ok(Unit)]

\* if who_am_i != 0x68 { return Err(..) }; Ok(())
CheckWhoAmI(who) ==
    IF Val(who) # WHO_AM_I_EXPECTED
    THEN [m |-> who.m, r |-> Err(WhoAmIError)]
    ELSE [m |-> who.m, r |-> Ok(Unit)]

\* an initialization that goes on after a failed reset write
initialize_IgnoreResetFailure(env, m) ==
    Let(write_register(env, m, REGISTER_PWR_MGMT_1, PWR_MGMT_1_RESET), LAMBDA w1 :
    Try(write_register(env, Sleep(w1.m, 100), REGISTER_PWR_MGMT_1,
                       PWR_MGMT_1_CLKSEL_PLL_X), LAMBDA w2 :
    Try(set_gyro_sensitivity(env, w2.m, w2.m.self.gyro_sensitivity), LAMBDA w3 :
    Try(set_accel_sensitivity(env, w3.m, w3.m.self.accel_sensitivity), LAMBDA w4 :
    Try(write_register(env, w4.m, REGISTER_SMPLRT_DIV, 7), LAMBDA w5 :
    Try(write_register(env, w5.m, REGISTER_CONFIG, 6), LAMBDA w6 :
    Try(read_register(env, w6.m, REGISTER_WHO_AM_I), LAMBDA who :
        CheckWhoAmI(who))))))))

initialize(env, m) ==
    Try(write_register(env, m, REGISTER_PWR_MGMT_1, PWR_MGMT_1_RESET), LAMBDA w1 :
    Try(write_register(env, Sleep(w1.m, 100), REGISTER_PWR_MGMT_1,
                       PWR_MGMT_1_CLKSEL_PLL_X), LAMBDA w2 :
    Try(set_gyro_sensitivity(env, w2.m, w2.m.self.gyro_sensitivity), LAMBDA w3 :
    Try(set_accel_sensitivity(env, w3.m, w3.m.self.accel_sensitivity), LAMBDA w4 :
    Try(write_register(env, w4.m, REGISTER_SMPLRT_DIV, 7), LAMBDA w5 :
    Try(write_register(env, w5.m, REGISTER_CONFIG, 6), LAMBDA w6 :
    Try(read_register(env, w6.m, REGISTER_WHO_AM_I), LAMBDA who :
        CheckWhoAmI(who))))))))

\* the sensor as MPU6050::new constructs it before initialize
MPU6050_Default ==
    [accel_sensitivity |-> AFS_SEL_2G, gyro_sensitivity |-> FS_SEL_250DPS,
     accel_scale |-> ACCEL_SENSITIVITY_2G, gyro_scale |-> GYRO_SENSITIVITY_250DPS]

\* a machine for one call on a driver
Machine(self, d) == [self |-> self, log |-> <<>>, nops |-> 0, dev |-> d]

\* MPU6050::new(i2c, false); on success the result carries the sensor
MPU6050_new(env) ==
    Try(I2cSetSlaveAddress(env, Machine(MPU6050_Default, DevBlank), MPU6050_ADDRESS),
        LAMBDA a :
    Try(initialize(env, a.m), LAMBDA i : [m |-> i.m, r |-> Ok(i.m.self)]))

-----------------------------------------------------------------------------
(* MPL115A2 driver *)

MPL115A2_ADDRESS == 96
REGISTER_PRESSURE_MSB == 0
REGISTER_PRESSURE_LSB == 1
REGISTER_TEMP_MSB == 2
REGISTER_TEMP_LSB == 3
REGISTER_A0_COEFF_MSB == 4
REGISTER_A0_COEFF_LSB == 5
REGISTER_B1_COEFF_MSB == 6
REGISTER_B1_COEFF_LSB == 7
REGISTER_B2_COEFF_MSB == 8
REGISTER_B2_COEFF_LSB == 9
REGISTER_C12_COEFF_MSB == 10
REGISTER_C12_COEFF_LSB == 11
REGISTER_START_CONVERSION == 18

MPL115A2_read_register(env, m, register) ==
    Try(I2cWriteRead(env, m, register, 1),
        LAMBDA c : [m |-> c.m, r |-> Ok(Val(c)[1])])

\* raw as f32 / divisor, for the coefficient called name
Coefficient(name, raw) == F32(name, <<raw>>)

\* the two reads of one coefficient, its decoding and its assignment to self
ReadCoefficient(env, m, name, msb_register, lsb_register) ==
    Try(MPL115A2_read_register(env, m, msb_register), LAMBDA msb :
    Try(MPL115A2_read_register(env, msb.m, lsb_register), LAMBDA lsb :
        [m |-> [lsb.m EXCEPT !.self[name] =
                    Coefficient(name, Decode16(Val(msb), Val(lsb)))],
         r |-> Ok(Unit)]))

read_calibration_coefficients(env, m) ==
    Try(ReadCoefficient(env, m, "a0", REGISTER_A0_COEFF_MSB, REGISTER_A0_COEFF_LSB),
        LAMBDA a0 :
    Try(ReadCoefficient(env, a0.m, "b1", REGISTER_B1_COEFF_MSB, REGISTER_B1_COEFF_LSB),
        LAMBDA b1 :
    Try(ReadCoefficient(env, b1.m, "b2", REGISTER_B2_COEFF_MSB, REGISTER_B2_COEFF_LSB),
        LAMBDA b2 :
    ReadCoefficient(env, b2.m, "c12", REGISTER_C12_COEFF_MSB, REGISTER_C12_COEFF_LSB))))

\* the sensor as MPL115A2::new constructs it before the coefficients are read
MPL115A2_Default ==
    [a0 |-> Coefficient("a0", 0), b1 |-> Coefficient("b1", 0),
     b2 |-> Coefficient("b2", 0), c12 |-> Coefficient("c12", 0)]

\* MPL115A2::new(i2c); on success the result carries the sensor
MPL115A2_new(env) ==
    Try(I2cSetSlaveAddress(env, Machine(MPL115A2_Default, DevBlank), MPL115A2_ADDRESS),
        LAMBDA a :
    Try(read_calibration_coefficients(env, a.m),
        LAMBDA c : [m |-> c.m, r |-> Ok(c.m.self)]))

\* ((msb as u16) << 2) | ((lsb as u16) >> 6)
Adc10(msb, lsb) == BitOr((msb * 4) % 65536, lsb \div 64)

\* the compensation formula of read_pressure, rescaled to hPa
PressureValue(self, pressure_raw, temp_raw) ==
    F32("mpl_hpa", self.a0.args \o self.b1.args \o self.b2.args \o self.c12.args
                   \o <<pressure_raw, temp_raw>>)

\* (temp_adc - 498.0) / -5.35 + 25.0
CelsiusValue(temp_raw) == F32("mpl_temp_c", <<temp_raw>>)

\* the PressureReading of read_pressure
PressureReading(self, pressure_raw, temp_raw) ==
    [pressure_hpa |-> PressureValue(self, pressure_raw, temp_raw),
     temperature_celsius |-> CelsiusValue(temp_raw)]

\* a read that starts over once after a failed start-conversion write
read_pressure_Retry(env, m) ==
    Let(I2cWrite(env, m, REGISTER_START_CONVERSION, 0), LAMBDA s :
        IF s.r.ok THEN
    Try(MPL115A2_read_register(env, Sleep(s.m, 5), REGISTER_PRESSURE_MSB), LAMBDA pm :
    Try(MPL115A2_read_register(env, pm.m, REGISTER_PRESSURE_LSB), LAMBDA pl :
    Try(MPL115A2_read_register(env, pl.m, REGISTER_TEMP_MSB), LAMBDA tm :
    Try(MPL115A2_read_register(env, tm.m, REGISTER_TEMP_LSB), LAMBDA tl :
        [m |-> tl.m,
         r |-> Ok(PressureReading(tl.m.self, Adc10(Val(pm), Val(pl)),
                                  Adc10(Val(tm), Val(tl))))]))))
        ELSE
    Try(I2cWrite(env, s.m, REGISTER_START_CONVERSION, 0), LAMBDA s2 :
    Try(MPL115A2_read_register(env, Sleep(s2.m, 5), REGISTER_PRESSURE_MSB), LAMBDA pm :
    Try(MPL115A2_read_register(env, pm.m, REGISTER_PRESSURE_LSB), LAMBDA pl :
    Try(MPL115A2_read_register(env, pl.m, REGISTER_TEMP_MSB), LAMBDA tm :
    Try(MPL115A2_read_register(env, tm.m, REGISTER_TEMP_LSB), LAMBDA tl :
        [m |-> tl.m,
         r |-> Ok(PressureReading(tl.m.self, Adc10(Val(pm), Val(pl)),
                                  Adc10(Val(tm), Val(tl))))]))))))

read_pressure(env, m) ==
    Try(I2cWrite(env, m, REGISTER_START_CONVERSION, 0), LAMBDA s :
    Try(MPL115A2_read_register(env, Sleep(s.m, 5), REGISTER_PRESSURE_MSB), LAMBDA pm :
    Try(MPL115A2_read_register(env, pm.m, REGISTER_PRESSURE_LSB), LAMBDA pl :
    Try(MPL115A2_read_register(env, pl.m, REGISTER_TEMP_MSB), LAMBDA tm :
    Try(MPL115A2_read_register(env, tm.m, REGISTER_TEMP_LSB), LAMBDA tl :
        [m |-> tl.m,
         r |-> Ok(PressureReading(tl.m.self, Adc10(Val(pm), Val(pl)),
                                  Adc10(Val(tm), Val(tl))))])))))

-----------------------------------------------------------------------------
(* TelemetryPacket *)

\* a u64 below 2^31 as four 16-bit limbs, least significant first
U64(n) == <<n % 65536, n \div 65536, 0, 0>>

\* 0xFF_FF_FF_FF_FF_FF_FF_FF
SYNC == <<65535, 65535, 65535, 65535>>

\* the fields of the struct in declaration order, with their sizes in bytes
Fields ==
    <<[name |-> "sync", size |-> 8, kind |-> "u64"],
      [name |-> "timestamp", size |-> 8, kind |-> "u64"],
      [name |-> "temperature", size |-> 4, kind |-> "f32"],
      [name |-> "pressure", size |-> 4, kind |-> "f32"],
      [name |-> "humidity", size |-> 4, kind |-> "f32"],
      [name |-> "altitude", size |-> 4, kind |-> "f32"],
      [name |-> "latitude", size |-> 4, kind |-> "f32"],
      [name |-> "longitude", size |-> 4, kind |-> "f32"],
      [name |-> "accel_x", size |-> 4, kind |-> "f32"],
      [name |-> "accel_y", size |-> 4, kind |-> "f32"],
      [name |-> "accel_z", size |-> 4, kind |-> "f32"],
      [name |-> "gyro_x", size |-> 4, kind |-> "f32"],
      [name |-> "gyro_y", size |-> 4, kind |-> "f32"],
      [name |-> "gyro_z", size |-> 4, kind |-> "f32"],
      [name |-> "status", size |-> 1, kind |-> "u8"]>>

\* rng.gen_range(..) for the i-th field of the struct
Rng(rng, i) == F32("rng", <<i, rng.seed>>)

\* the altitude expression: the barometric formula of pressure_kpa * 10.0 when
\* that is positive, else 0.0
Altitude(pressure_kpa) == F32("altitude", pressure_kpa.args)

TelemetryPacket_new(now, rng) ==
    [sync |-> SYNC, timestamp |-> U64(now),
     temperature |-> Rng(rng, 3), pressure |-> Rng(rng, 4),
     humidity |-> Rng(rng, 5), altitude |-> Rng(rng, 6),
     latitude |-> Rng(rng, 7), longitude |-> Rng(rng, 8),
     accel_x |-> Rng(rng, 9), accel_y |-> Rng(rng, 10), accel_z |-> Rng(rng, 11),
     gyro_x |-> Rng(rng, 12), gyro_y |-> Rng(rng, 13), gyro_z |-> Rng(rng, 14),
     status |-> rng.status]

new_with_sensor_data(now, rng, pressure_kpa, temperature_celsius) ==
    [sync |-> SYNC, timestamp |-> U64(now),
     temperature |-> temperature_celsius, pressure |-> pressure_kpa,
     humidity |-> Rng(rng, 5), altitude |-> Altitude(pressure_kpa),
     latitude |-> Rng(rng, 7), longitude |-> Rng(rng, 8),
     accel_x |-> Rng(rng, 9), accel_y |-> Rng(rng, 10), accel_z |-> Rng(rng, 11),
     gyro_x |-> Rng(rng, 12), gyro_y |-> Rng(rng, 13), gyro_z |-> Rng(rng, 14),
     status |-> 1]

new_with_full_sensor_data(now, rng, pressure_kpa, temperature_celsius, motion) ==
    [sync |-> SYNC, timestamp |-> U64(now),
     temperature |-> temperature_celsius, pressure |-> pressure_kpa,
     humidity |-> Rng(rng, 5), altitude |-> Altitude(pressure_kpa),
     latitude |-> Rng(rng, 7), longitude |-> Rng(rng, 8),
     accel_x |-> motion.accelerometer.x, accel_y |-> motion.accelerometer.y,
     accel_z |-> motion.accelerometer.z,
     gyro_x |-> motion.gyroscope.x, gyro_y |-> motion.gyroscope.y,
     gyro_z |-> motion.gyroscope.z,
     status |-> 3]

\* the alignment of a field under the natural alignment of repr(C)
FieldAlign_Natural(size) == size

\* the alignment of a field of the struct: #[repr(C, packed)] makes it 1
FieldAlign(size) == 1

\* n rounded up to a multiple of a
AlignUp(n, a) == ((n + a - 1) \div a) * a

\* the offset of the i-th field
RECURSIVE OffsetOf(_)
OffsetOf(i) ==
    IF i = 1 THEN 0
    ELSE AlignUp(OffsetOf(i - 1) + Fields[i - 1].size, FieldAlign(Fields[i].size))

RECURSIVE MaxAlign(_)
MaxAlign(i) ==
    IF i = 0 THEN 1
    ELSE LET a == FieldAlign(Fields[i].size)
             b == MaxAlign(i - 1)
         IN  IF a > b THEN a ELSE b

\* mem::size_of::<TelemetryPacket>()
SizeOf ==
    AlignUp(OffsetOf(Len(Fields)) + Fields[Len(Fields)].size, MaxAlign(Len(Fields)))

\* a byte of memory: of an integer (its value b), of an f32 (the b-th byte of the
\* term in `of`), or padding
ByteU8(b) == [k |-> "u8", b |-> b, of |-> <<>>]

ByteF32(v, j) == [k |-> "f32", b |-> j, of |-> <<v>>]

BytePad == [k |-> "pad", b |-> 0, of |-> <<>>]

\* the j-th byte (from 0) of the field fld of packet p, in native (little-endian) order
FieldByte(p, fld, j) ==
    CASE fld.kind = "u64" ->
            ByteU8((p[fld.name][(j \div 2) + 1] \div (IF j % 2 = 0 THEN 1 ELSE 256)) % 256)
      [] fld.kind = "f32" -> ByteF32(p[fld.name], j)
      [] fld.kind = "u8" -> ByteU8(p[fld.name])

\* the offsets of the fields
Offsets == [i \in 1..Len(Fields) |-> OffsetOf(i)]

\* the field covering each offset of the struct's memory, 0 where none does
FieldAt ==
    [o \in 0..(SizeOf - 1) |->
        LET covering == {i \in 1..Len(Fields) :
                            Offsets[i] <= o /\ o < Offsets[i] + Fields[i].size}
        IN  IF covering = {} THEN 0 ELSE CHOOSE i \in covering : TRUE]

\* the byte at offset o of the struct's memory
MemoryByte(p, o) ==
    IF FieldAt[o] = 0 THEN BytePad
    ELSE FieldByte(p, Fields[FieldAt[o]], o - Offsets[FieldAt[o]])

\* slice::from_raw_parts(self as *const u8, mem::size_of::<Self>())
as_bytes(p) == [o \in 1..SizeOf |-> MemoryByte(p, o - 1)]

-----------------------------------------------------------------------------
(* main *)

init_barometer(env) ==
    Let(MPL115A2_new(env), LAMBDA n :
        [sensor |-> IF n.r.ok THEN Some(Val(n)) ELSE None, log |-> n.m.log])

\* a read_barometer that gives up the sensor after a failed read
read_barometer_Disable(env, baro) ==
    IF baro # None
    THEN Let(read_pressure(env, Machine(baro[1], DevBlank)), LAMBDA c :
             [sensor |-> IF c.r.ok THEN Some(c.m.self) ELSE None,
              reading |-> IF c.r.ok THEN Some(Val(c)) ELSE None,
              log |-> c.m.log, raised |-> None])
    ELSE [sensor |-> None, reading |-> None, log |-> <<>>, raised |-> None]

\* a read_barometer that passes the error of a failed read on to its caller
read_barometer_Propagate(env, baro) ==
    IF baro # None
    THEN Let(read_pressure(env, Machine(baro[1], DevBlank)), LAMBDA c :
             [sensor |-> Some(c.m.self),
              reading |-> IF c.r.ok THEN Some(Val(c)) ELSE None,
              log |-> c.m.log,
              raised |-> IF c.r.ok THEN None ELSE Some(c.r.err)])
    ELSE [sensor |-> None, reading |-> None, log |-> <<>>, raised |-> None]

\* read_barometer(&mut barometer): the sensor after the call, the reading, the bus
\* operations performed, and the error that leaves the function (none does)
read_barometer(env, baro) ==
    IF baro # None
    THEN Let(read_pressure(env, Machine(baro[1], DevBlank)), LAMBDA c :
             [sensor |-> Some(c.m.self),
              reading |-> IF c.r.ok THEN Some(Val(c)) ELSE None,
              log |-> c.m.log, raised |-> None])
    ELSE [sensor |-> None, reading |-> None, log |-> <<>>, raised |-> None]

init_motion_sensor(env) ==
    Let(MPU6050_new(env), LAMBDA n :
        [sensor |-> IF n.r.ok THEN Some(Val(n)) ELSE None,
         log |-> n.m.log, dev |-> n.m.dev, r |-> n.r])

read_motion_sensor(env, motion, d) ==
    IF motion # None
    THEN Let(read_all(env, Machine(motion[1], d)), LAMBDA c :
             [sensor |-> Some(c.m.self),
              reading |-> IF c.r.ok THEN Some(Val(c)) ELSE None,
              log |-> c.m.log, dev |-> c.m.dev, raised |-> None])
    ELSE [sensor |-> None, reading |-> None, log |-> <<>>, dev |-> d, raised |-> None]

\* the match on (pressure_reading, motion_reading) that constructs the packet
SelectPacket(now, rng, pressure, motion) ==
    CASE pressure # None /\ motion # None ->
            new_with_full_sensor_data(now, rng, pressure[1].pressure_hpa,
                                      pressure[1].temperature_celsius, motion[1])
      [] pressure # None /\ motion = None ->
            new_with_sensor_data(now, rng, pressure[1].pressure_hpa,
                                 pressure[1].temperature_celsius)
      [] OTHER -> TelemetryPacket_new(now, rng)

\* a send that passes a failure on with `?`
SendResult_Propagate(ok) ==
    [attempts |-> 1, raised |-> IF ok THEN None ELSE Some("send_to")]

\* the match on socket.send_to(bytes, target_addr): the number of send_to calls
\* made and the error that leaves main (none does)
SendResult(ok) == [attempts |-> 1, raised |-> None]

\* the values SystemTime::now() takes, in seconds
NowSamples == {1700000000}

\* the values the status draw of TelemetryPacket::new takes, out of 0..=255
StatusSamples == {0, 3, 255}

RngSamples == [seed : 0..MaxRng, status : StatusSamples]

\* the contents of WHO_AM_I that are tried
WhoSamples == {104, 0}

\* the behaviours of the bus during a call of at most n bus operations
Envs(n, whos) == [failAt : 0..n, seed : 0..MaxSeed, who : whos]

Inc(n, max) == IF n < max THEN n + 1 ELSE max

LoopPcs == {"read_baro", "read_motion", "build", "send", "sleep"}

NoCall == [name |-> "none", arg |-> 0, failAt |-> 0]

NoInit == [r |-> Ok(Unit), log |-> <<>>, who |-> 0]

Init ==
    /\ pc = "bind"
    /\ barometer = None
    /\ motion_sensor = None
    /\ dev = DevBlank
    /\ pressure_reading = None
    /\ motion_reading = None
    /\ packet = None
    /\ wire = None
    /\ baro_log = <<>>
    /\ motion_log = <<>>
    /\ ret = Ok(Unit)
    /\ call = NoCall
    /\ cycle = 0
    /\ built = 0
    /\ sends = 0
    /\ send_ok = TRUE
    /\ baro_failed = 0
    /\ motion_failed = 0
    /\ motion_init = NoInit
    /\ buffer = <<0, 0>>
    /\ decoded = None

\* UdpSocket::bind("0.0.0.0:0")?
BindSocket ==
    /\ pc = "bind"
    /\ \E ok \in BOOLEAN : pc' = IF ok THEN "i2c_baro" ELSE "exit"
    /\ UNCHANGED <<buffer, decoded>>
    /\ UNCHANGED <<barometer, motion_sensor, dev, pressure_reading, motion_reading,
                   packet, wire, baro_log, motion_log, ret, call, cycle, built,
                   sends, send_ok, baro_failed, motion_failed, motion_init>>

\* let i2c = I2c::new()?
I2cNewBarometer ==
    /\ pc = "i2c_baro"
    /\ \E ok \in BOOLEAN : pc' = IF ok THEN "init_baro" ELSE "exit"
    /\ UNCHANGED <<buffer, decoded>>
    /\ UNCHANGED <<barometer, motion_sensor, dev, pressure_reading, motion_reading,
                   packet, wire, baro_log, motion_log, ret, call, cycle, built,
                   sends, send_ok, baro_failed, motion_failed, motion_init>>

\* let mut barometer = init_barometer(i2c)
InitBarometer ==
    /\ pc = "init_baro"
    /\ \E env \in Envs(9, {0}) :
          Let(init_barometer(env), LAMBDA b :
              /\ barometer' = b.sensor
              /\ baro_log' = b.log)
    /\ pc' = "i2c_motion"
    /\ UNCHANGED <<buffer, decoded>>
    /\ UNCHANGED <<motion_sensor, dev, pressure_reading, motion_reading, packet,
                   wire, motion_log, ret, call, cycle, built, sends, send_ok,
                   baro_failed, motion_failed, motion_init>>

\* let i2c_motion = I2c::new()?
I2cNewMotion ==
    /\ pc = "i2c_motion"
    /\ \E ok \in BOOLEAN : pc' = IF ok THEN "init_motion" ELSE "exit"
    /\ UNCHANGED <<buffer, decoded>>
    /\ UNCHANGED <<barometer, motion_sensor, dev, pressure_reading, motion_reading,
                   packet, wire, baro_log, motion_log, ret, call, cycle, built,
                   sends, send_ok, baro_failed, motion_failed, motion_init>>

\* let mut motion_sensor = init_motion_sensor(i2c_motion), and the entry of the loop
InitMotionSensor ==
    /\ pc = "init_motion"
    /\ \E env \in Envs(8, WhoSamples) :
          Let(init_motion_sensor(env), LAMBDA s :
              /\ motion_sensor' = s.sensor
              /\ motion_log' = s.log
              /\ dev' = s.dev
              /\ motion_init' = [r |-> s.r, log |-> s.log, who |-> env.who])
    /\ pc' = "read_baro"
    /\ cycle' = 1
    /\ UNCHANGED <<buffer, decoded>>
    /\ UNCHANGED <<barometer, pressure_reading, motion_reading, packet, wire,
                   baro_log, ret, call, built, sends, send_ok, baro_failed,
                   motion_failed>>

\* let pressure_reading = read_barometer(&mut barometer)
ReadBarometer ==
    /\ pc = "read_baro"
    /\ \E env \in Envs(5, {0}) :
          Let(read_barometer(env, barometer), LAMBDA b :
              /\ barometer' = b.sensor
              /\ pressure_reading' = b.reading
              /\ baro_log' = b.log
              /\ baro_failed' = IF barometer # None /\ b.reading = None
                                THEN Inc(baro_failed, MaxFails) ELSE baro_failed
              /\ pc' = IF b.raised = None THEN "read_motion" ELSE "exit")
    /\ UNCHANGED <<buffer, decoded>>
    /\ UNCHANGED <<motion_sensor, dev, motion_reading, packet, wire, motion_log,
                   ret, call, cycle, built, sends, send_ok, motion_failed,
                   motion_init>>

\* let motion_reading = read_motion_sensor(&mut motion_sensor)
ReadMotionSensor ==
    /\ pc = "read_motion"
    /\ \E env \in Envs(7, {0}) :
          Let(read_motion_sensor(env, motion_sensor, dev), LAMBDA s :
              /\ motion_sensor' = s.sensor
              /\ motion_reading' = s.reading
              /\ motion_log' = s.log
              /\ dev' = s.dev
              /\ motion_failed' = IF motion_sensor # None /\ s.reading = None
                                  THEN Inc(motion_failed, MaxFails) ELSE motion_failed
              /\ pc' = IF s.raised = None THEN "build" ELSE "exit")
    /\ UNCHANGED <<buffer, decoded>>
    /\ UNCHANGED <<barometer, pressure_reading, packet, wire, baro_log, ret, call,
                   cycle, built, sends, send_ok, baro_failed, motion_init>>

\* let packet = match (pressure_reading, motion_reading) { .. }
BuildPacket ==
    /\ pc = "build"
    /\ \E now \in NowSamples, rng \in RngSamples :
          packet' = Some(SelectPacket(now, rng, pressure_reading, motion_reading))
    /\ built' = built + 1
    /\ pc' = "send"
    /\ UNCHANGED <<buffer, decoded>>
    /\ UNCHANGED <<barometer, motion_sensor, dev, pressure_reading, motion_reading,
                   wire, baro_log, motion_log, ret, call, cycle, sends, send_ok,
                   baro_failed, motion_failed, motion_init>>

\* let bytes = packet.as_bytes(); match socket.send_to(bytes, target_addr) { .. }
Send ==
    /\ pc = "send"
    /\ wire' = Some(as_bytes(packet[1]))
    /\ \E ok \in BOOLEAN :
          Let(SendResult(ok), LAMBDA s :
              /\ send_ok' = ok
              /\ sends' = sends + s.attempts
              /\ pc' = IF s.raised = None THEN "sleep" ELSE "exit")
    /\ UNCHANGED <<buffer, decoded>>
    /\ UNCHANGED <<barometer, motion_sensor, dev, pressure_reading, motion_reading,
                   packet, baro_log, motion_log, ret, call, cycle, built,
                   baro_failed, motion_failed, motion_init>>

\* tokio::time::sleep(..).await, and the start of the next iteration of the loop
SleepCycle ==
    /\ pc = "sleep"
    /\ pc' = "read_baro"
    /\ cycle' = Inc(cycle, MaxCycles)
    /\ pressure_reading' = None
    /\ motion_reading' = None
    /\ packet' = None
    /\ wire' = None
    /\ built' = 0
    /\ sends' = 0
    /\ UNCHANGED <<buffer, decoded>>
    /\ UNCHANGED <<barometer, motion_sensor, dev, baro_log, motion_log, ret, call,
                   send_ok, baro_failed, motion_failed, motion_init>>

Next ==
    \/ BindSocket
    \/ I2cNewBarometer
    \/ InitBarometer
    \/ I2cNewMotion
    \/ InitMotionSensor
    \/ ReadBarometer
    \/ ReadMotionSensor
    \/ BuildPacket
    \/ Send
    \/ SleepCycle

Spec == Init /\ [][Next]_vars

-----------------------------------------------------------------------------
(* The MPU6050 driver under an arbitrary caller: any sequence of calls of its *)
(* public functions on a sensor that MPU6050::new returned                    *)

\* a bus on which every operation succeeds and the device is an MPU6050
BusAllOk == [failAt |-> 0, seed |-> 0, who |-> WHO_AM_I_EXPECTED]

DriverInit ==
    /\ pc = "driver"
    /\ barometer = None
    /\ Let(init_motion_sensor(BusAllOk), LAMBDA s :
           /\ motion_sensor = s.sensor
           /\ dev = s.dev
           /\ motion_log = s.log
           /\ motion_init = [r |-> s.r, log |-> s.log, who |-> BusAllOk.who])
    /\ pressure_reading = None
    /\ motion_reading = None
    /\ packet = None
    /\ wire = None
    /\ baro_log = <<>>
    /\ ret = Ok(Unit)
    /\ call = NoCall
    /\ cycle = 0
    /\ built = 0
    /\ sends = 0
    /\ send_ok = TRUE
    /\ baro_failed = 0
    /\ motion_failed = 0
    /\ buffer = <<0, 0>>
    /\ decoded = None

\* the effect of a driver call with outcome c on the state
DriverCall(name, arg, env, c) ==
    /\ pc = "driver"
    /\ motion_sensor' = Some(c.m.self)
    /\ dev' = c.m.dev
    /\ motion_log' = c.m.log
    /\ ret' = c.r
    /\ call' = [name |-> name, arg |-> arg, failAt |-> env.failAt]
    /\ UNCHANGED <<buffer, decoded>>
    /\ UNCHANGED <<pc, barometer, pressure_reading, motion_reading, packet, wire,
                   baro_log, cycle, built, sends, send_ok, baro_failed,
                   motion_failed, motion_init>>

\* the ranges a caller asks for
AccelSamples == {0, 8, 24}

GyroSamples == {0, 16}

\* the machine a driver call starts on
Self == Machine(motion_sensor[1], dev)

SetAccelSensitivity ==
    \E sensitivity \in AccelSamples, env \in Envs(1, {0}) :
        DriverCall("set_accel_sensitivity", sensitivity, env,
                   set_accel_sensitivity(env, Self, sensitivity))

SetGyroSensitivity ==
    \E sensitivity \in GyroSamples, env \in Envs(1, {0}) :
        DriverCall("set_gyro_sensitivity", sensitivity, env,
                   set_gyro_sensitivity(env, Self, sensitivity))

ReadAccelerometer ==
    \E env \in Envs(3, {0}) :
        DriverCall("read_accelerometer", 0, env, read_accelerometer(env, Self))

ReadGyroscope ==
    \E env \in Envs(3, {0}) :
        DriverCall("read_gyroscope", 0, env, read_gyroscope(env, Self))

ReadTemperature ==
    \E env \in Envs(1, {0}) :
        DriverCall("read_temperature", 0, env, read_temperature(env, Self))

ReadAll ==
    \E env \in Envs(7, {0}) :
        DriverCall("read_all", 0, env, read_all(env, Self))

Calibrate ==
    \E samples \in 0..MaxSamples :
      \E env \in Envs(7 * samples, {0}) :
        DriverCall("calibrate", samples, env, calibrate(env, Self, samples))

DriverNext ==
    \/ SetAccelSensitivity
    \/ SetGyroSensitivity
    \/ ReadAccelerometer
    \/ ReadGyroscope
    \/ ReadTemperature
    \/ ReadAll
    \/ Calibrate

SpecDriver == DriverInit /\ [][DriverNext]_vars

-----------------------------------------------------------------------------
(* The 16-bit decoding on every pair of bytes the bus can deliver: the two     *)
(* bytes of a motion register, or the MSB and LSB of a calibration coefficient *)

DecodeInit ==
    /\ pc = "decode"
    /\ buffer \in Byte \X Byte
    /\ decoded = None
    /\ barometer = None
    /\ motion_sensor = None
    /\ dev = DevBlank
    /\ pressure_reading = None
    /\ motion_reading = None
    /\ packet = None
    /\ wire = None
    /\ baro_log = <<>>
    /\ motion_log = <<>>
    /\ ret = Ok(Unit)
    /\ call = NoCall
    /\ cycle = 0
    /\ built = 0
    /\ sends = 0
    /\ send_ok = TRUE
    /\ baro_failed = 0
    /\ motion_failed = 0
    /\ motion_init = NoInit

\* the decoding of buffer by the function called name
DecodeBy(name) ==
    /\ pc = "decode"
    /\ decoded' = Some(Decode16(buffer[1], buffer[2]))
    /\ call' = [name |-> name, arg |-> 0, failAt |-> 0]
    /\ pc' = "decoded"
    /\ UNCHANGED <<buffer, barometer, motion_sensor, dev, pressure_reading,
                   motion_reading, packet, wire, baro_log, motion_log, ret, cycle,
                   built, sends, send_ok, baro_failed, motion_failed, motion_init>>

\* Ok(((buffer[0] as i16) << 8) | (buffer[1] as i16)) of MPU6050::read_register_16
DecodeRegister16 == DecodeBy("read_register_16")

\* let a0_raw = ((a0_msb as i16) << 8) | (a0_lsb as i16), and the same for b1,
\* b2 and c12
DecodeCoefficient == DecodeBy("read_calibration_coefficients")

DecodeNext ==
    \/ DecodeRegister16
    \/ DecodeCoefficient

SpecDecode == DecodeInit /\ [][DecodeNext]_vars

-----------------------------------------------------------------------------
(* Properties *)

\* the status byte that names the field groups read from real sensors
ExpectedStatus(pressure, motion) ==
    (IF pressure # None THEN 1 ELSE 0) + (IF motion # None THEN 2 ELSE 0)

\* C1: the status byte of the packet of a cycle is 0x00 when neither read
\* succeeded, 0x01 when only the pressure read did, 0x02 when only the motion read
\* did and 0x03 when both did.
C1_StatusIdentifiesGroups ==
    pc = "send" => packet[1].status = ExpectedStatus(pressure_reading, motion_reading)

\* the fields of a packet that come from the motion sensor
MotionFields(p) == <<p.accel_x, p.accel_y, p.accel_z, p.gyro_x, p.gyro_y, p.gyro_z>>

\* the same six values of a MotionReading
MotionValues(m) ==
    <<m.accelerometer.x, m.accelerometer.y, m.accelerometer.z,
      m.gyroscope.x, m.gyroscope.y, m.gyroscope.z>>

\* C2: each field group of the packet is sourced on its own: pressure and
\* temperature are the barometer's reading whenever the pressure read succeeded,
\* the six motion fields are the motion reading whenever the motion read
\* succeeded, and a group is simulated only when its own read did not succeed.
C2_GroupsIndependent ==
    pc = "send" =>
        /\ pressure_reading # None =>
              /\ packet[1].pressure = pressure_reading[1].pressure_hpa
              /\ packet[1].temperature = pressure_reading[1].temperature_celsius
        /\ motion_reading # None =>
              MotionFields(packet[1]) = MotionValues(motion_reading[1])
        /\ packet[1].pressure.f = "rng" => pressure_reading = None
        /\ packet[1].accel_x.f = "rng" => motion_reading = None

\* C3: no failure of a read leaves the loop: main ends only during startup, and
\* every cycle, whatever its reads did, constructs exactly one packet and makes
\* exactly one transmission attempt.
C3_CycleAlwaysSends ==
    /\ pc = "exit" => cycle = 0
    /\ pc \in {"read_baro", "read_motion", "build"} => built = 0 /\ sends = 0
    /\ pc = "send" => built = 1 /\ sends = 0 /\ packet # None
    /\ pc = "sleep" => built = 1 /\ sends = 1 /\ packet # None /\ wire # None

\* a cycle in which both sensors are present, both reads failed, and one packet
\* was built and sent once
C3_Witness ==
    /\ pc = "sleep"
    /\ barometer # None /\ pressure_reading = None
    /\ motion_sensor # None /\ motion_reading = None
    /\ built = 1 /\ sends = 1

\* in a cycle, once a sensor's read is over: the bus was used for it exactly when
\* the sensor is present
C4_AttemptedIffPresent ==
    /\ pc \in {"read_motion", "build", "send", "sleep"} =>
          (barometer # None <=> baro_log # <<>>)
    /\ pc \in {"build", "send", "sleep"} =>
          (motion_sensor # None <=> motion_log # <<>>)

\* C4: the sensors in use are fixed at startup: no step of the loop changes
\* either sensor, a present sensor is read in every cycle however many of its
\* reads failed, and an absent one is never accessed.
C4_SensorsFixed ==
    /\ [](C4_AttemptedIffPresent)
    /\ [][(pc \in LoopPcs) =>
              (barometer' = barometer /\ motion_sensor' = motion_sensor)]_vars

\* the barometer is read again, with success, after MaxFails of its reads failed
C4_Witness ==
    /\ pc = "read_motion"
    /\ baro_failed >= 2
    /\ barometer # None
    /\ baro_log # <<>>
    /\ pressure_reading # None

\* C5: a send makes exactly one attempt and is followed by the sleep whatever its
\* outcome, the sleep can always be left and is followed by the next cycle, and
\* no step of the loop leaves the loop.
C5_SendFailureGoesOn ==
    /\ [](pc = "sleep" => ENABLED SleepCycle)
    /\ [][((pc = "send") => (pc' = "sleep" /\ sends' = sends + 1))
          /\ ((pc = "sleep") => (pc' = "read_baro" /\ sends' = 0 /\ built' = 0))
          /\ ((pc \in LoopPcs) => (pc' \in LoopPcs))]_vars

\* a later cycle reaches its own send after the send before it failed
C5_Witness == pc = "send" /\ cycle >= 2 /\ ~send_ok /\ sends = 0

\* C6: after any sequence of set_accel_sensitivity and set_gyro_sensitivity
\* calls, failed or not, the in-memory sensitivities and scale factors are those
\* of the ranges last written successfully to the device.
C6_ScaleMatchesDevice ==
    pc = "driver" =>
        /\ motion_sensor[1].accel_sensitivity = dev[REGISTER_ACCEL_CONFIG]
        /\ motion_sensor[1].accel_scale = AccelScaleOf(dev[REGISTER_ACCEL_CONFIG])
        /\ motion_sensor[1].gyro_sensitivity = dev[REGISTER_GYRO_CONFIG]
        /\ motion_sensor[1].gyro_scale = GyroScaleOf(dev[REGISTER_GYRO_CONFIG])

\* the registers read_all reads, in order
ReadAllOrder ==
    <<REGISTER_ACCEL_XOUT_H, REGISTER_ACCEL_YOUT_H, REGISTER_ACCEL_ZOUT_H,
      REGISTER_GYRO_XOUT_H, REGISTER_GYRO_YOUT_H, REGISTER_GYRO_ZOUT_H,
      REGISTER_TEMP_OUT_H>>

\* what a log says of a call that stops at its first failed operation: every
\* operation but the last succeeded
StopsAtFirstFailure(ops) == \A i \in 1..(Len(ops) - 1) : ops[i].ok

\* after read_all: the bus operations are a prefix of the seven 16-bit reads in
\* order, it stopped at the first failure, and it returned a reading exactly when
\* all seven succeeded, all of whose values are sensor values
C7_ReadAllOutcome ==
    call.name = "read_all" =>
        LET ops == BusOps(motion_log)
        IN  /\ Len(ops) \in 1..7
            /\ \A i \in 1..Len(ops) :
                  ops[i].op = "write_read" /\ ops[i].reg = ReadAllOrder[i]
                  /\ ops[i].val = 2
            /\ StopsAtFirstFailure(ops)
            /\ ret.ok <=> (Len(ops) = 7 /\ ops[7].ok)
            /\ ~ret.ok => ~ops[Len(ops)].ok /\ ret.val = None
            /\ ret.ok =>
                  /\ \A i \in 1..3 : MotionValues(ret.val[1])[i].f = "accel_ms2"
                  /\ \A i \in 4..6 : MotionValues(ret.val[1])[i].f = "gyro_dps"
                  /\ ret.val[1].temperature.f = "mpu_temp_c"

\* C7: read_all returns a reading only when the accelerometer, gyroscope and
\* temperature reads all succeeded, in that order; when one of the seven register
\* reads fails it returns an error, performs no further bus operation, and in
\* every case leaves the sensor's configuration unchanged.
C7_ReadAllNeverPartial ==
    /\ [](C7_ReadAllOutcome)
    /\ [][(call'.name = "read_all") =>
              (motion_sensor' = motion_sensor /\ dev' = dev)]_vars

\* read_all failed at the first gyroscope register, after a reconfiguration
C7_Witness ==
    /\ call.name = "read_all"
    /\ ~ret.ok
    /\ Len(BusOps(motion_log)) = 4
    /\ motion_sensor[1].accel_sensitivity # AFS_SEL_2G

\* the read_all calls a log of calibrate shows: each starts at ACCEL_XOUT_H
ReadAllCalls(ops) == Len(SelectSeq(ops, LAMBDA e : e.reg = REGISTER_ACCEL_XOUT_H))

\* the six offsets calibrate returns
OffsetValues(v) == <<v[1].x, v[1].y, v[1].z, v[2].x, v[2].y, v[2].z>>

\* C8: calibrate(samples) returns offsets only after exactly `samples` successful
\* full reads, each offset a mean over `samples` readings; when the k-th read
\* fails it returns the error at once, having made exactly k read_all calls.
C8_CalibrateAllOrNothing ==
    call.name = "calibrate" =>
        LET ops == BusOps(motion_log)
            fails == call.failAt \in 1..(7 * call.arg)
        IN  /\ ret.ok <=> ~fails
            /\ ret.ok =>
                  /\ ReadAllCalls(ops) = call.arg
                  /\ Len(ops) = 7 * call.arg
                  /\ \A i \in 1..Len(ops) : ops[i].ok
                  /\ \A i \in 1..6 : Summands(OffsetValues(ret.val[1])[i]) = call.arg
            /\ ~ret.ok =>
                  /\ Len(ops) = call.failAt
                  /\ ~ops[Len(ops)].ok
                  /\ StopsAtFirstFailure(ops)
                  /\ ReadAllCalls(ops) = ((call.failAt - 1) \div 7) + 1
                  /\ ret.val = None

\* calibrate(2) whose second read failed: an error after two read_all calls
C8_Witness ==
    /\ call.name = "calibrate"
    /\ call.arg = 2
    /\ ~ret.ok
    /\ ReadAllCalls(BusOps(motion_log)) = 2

\* all eight bus operations of MPU6050::new were made and succeeded, the last
\* being the read of WHO_AM_I
InitBusAllOk(ops) ==
    /\ Len(ops) = 8
    /\ \A i \in 1..8 : ops[i].ok
    /\ \A i \in 2..7 : ops[i].op = "write"
    /\ ops[8].op = "write_read" /\ ops[8].reg = REGISTER_WHO_AM_I

\* C9: MPU6050::new fails with the identity error, which is not the error of a
\* bus failure, exactly when every initialization write and the WHO_AM_I read
\* succeeded and the value read is not 0x68; no sensor is then returned and the
\* motion sensor is not read in any cycle.
C9_IdentityMismatchDistinct ==
    pc \in LoopPcs =>
        LET ops == BusOps(motion_init.log)
            mismatch == motion_init.r.err = WhoAmIError
        IN  /\ WhoAmIError # IoError
            /\ mismatch <=> (InitBusAllOk(ops) /\ motion_init.who # WHO_AM_I_EXPECTED)
            /\ (\E i \in 1..Len(ops) : ~ops[i].ok) => motion_init.r.err = IoError
            /\ mismatch =>
                  /\ ~motion_init.r.ok
                  /\ motion_sensor = None
                  /\ motion_reading = None
                  /\ pc \in {"build", "send", "sleep"} => motion_log = <<>>

\* a cycle is over after an identity mismatch at startup
C9_Witness ==
    /\ pc = "sleep"
    /\ motion_init.r.err = WhoAmIError
    /\ motion_sensor = None

\* the length of the declared layout: the sync marker, the timestamp, twelve
\* floats and the status byte
PacketLength == 8 + 8 + 12 * 4 + 1

\* C10: every datagram handed to the transport is 65 bytes long, holds no
\* padding, and starts with eight 0xFF bytes, whichever constructor made the
\* packet.
C10_FixedLength ==
    wire # None =>
        /\ Len(wire[1]) = PacketLength
        /\ PacketLength = 65
        /\ \A i \in 1..Len(wire[1]) : wire[1][i].k # "pad"
        /\ \A i \in 1..8 : wire[1][i] = ByteU8(255)
        /\ wire[1][Len(wire[1])] = ByteU8(packet[1].status)

\* a packet of new_with_full_sensor_data was handed to the transport
C10_Witness ==
    /\ wire # None
    /\ pressure_reading # None
    /\ motion_reading # None
    /\ packet[1].status = 3

\* the step of the initialization that a log entry belongs to
InitStep(e) ==
    CASE e.op = "set_slave_address" -> "address"
      [] e.op = "write" /\ e.reg = REGISTER_PWR_MGMT_1 /\ e.val = PWR_MGMT_1_RESET
            -> "reset"
      [] e.op = "sleep" /\ e.val >= 100 -> "wait"
      [] e.op = "write" /\ e.reg = REGISTER_PWR_MGMT_1
                        /\ e.val = PWR_MGMT_1_CLKSEL_PLL_X -> "clock"
      [] e.op = "write" /\ e.reg \in {REGISTER_GYRO_CONFIG, REGISTER_ACCEL_CONFIG}
            -> "sensitivity"
      [] e.op = "write" /\ e.reg = REGISTER_SMPLRT_DIV -> "sample_rate"
      [] e.op = "write" /\ e.reg = REGISTER_CONFIG -> "filter"
      [] e.op = "write_read" /\ e.reg = REGISTER_WHO_AM_I -> "identity"
      [] OTHER -> "other"

\* the steps of MPU6050::new in their order: Resetting, Configured, Verified
InitOrder ==
    <<"address", "reset", "wait", "clock", "sensitivity", "sensitivity",
      "sample_rate", "filter", "identity">>

\* C11: MPU6050::new performs reset write, wait, clock-source write, the two
\* sensitivity writes, sample-rate write, filter write and identity read in
\* that order; it returns a sensor only after all of them succeeded and the
\* identity was right, and a failed register write is the last operation of
\* the initialization, which then returns no sensor.
C11_InitOrder ==
    pc \in LoopPcs =>
        LET log == motion_init.log
            n == Len(log)
        IN  /\ n \in 1..Len(InitOrder)
            /\ \A i \in 1..n : InitStep(log[i]) = InitOrder[i]
            /\ n >= 6 => log[5].reg # log[6].reg
            /\ \A i \in 1..n : ~log[i].ok => i = n /\ ~motion_init.r.ok
            /\ motion_init.r.ok =>
                  /\ n = Len(InitOrder)
                  /\ \A i \in 1..n : log[i].ok
                  /\ motion_init.who = WHO_AM_I_EXPECTED
            /\ (motion_sensor # None) <=> motion_init.r.ok

\* the sample-rate write failed: initialization stopped there without a sensor
C11_Witness ==
    /\ pc \in LoopPcs
    /\ Len(motion_init.log) = 7
    /\ motion_init.log[7].reg = REGISTER_SMPLRT_DIV
    /\ ~motion_init.log[7].ok
    /\ motion_sensor = None

\* the operations of MPL115A2::read_pressure in their order
ReadPressureOrder ==
    <<[op |-> "write", reg |-> REGISTER_START_CONVERSION],
      [op |-> "sleep", reg |-> 0],
      [op |-> "write_read", reg |-> REGISTER_PRESSURE_MSB],
      [op |-> "write_read", reg |-> REGISTER_PRESSURE_LSB],
      [op |-> "write_read", reg |-> REGISTER_TEMP_MSB],
      [op |-> "write_read", reg |-> REGISTER_TEMP_LSB]>>

\* log is what a call of read_pressure that returned reading may have done
ReadPressureOutcome(log, reading) ==
    LET n == Len(log)
    IN  /\ n \in 1..Len(ReadPressureOrder)
        /\ \A i \in 1..n : /\ log[i].op = ReadPressureOrder[i].op
                           /\ log[i].reg = ReadPressureOrder[i].reg
        /\ \A i \in 1..(n - 1) : log[i].ok
        /\ ~log[n].ok => reading = None
        /\ reading # None <=> (n = Len(ReadPressureOrder) /\ log[n].ok)

\* C12: a call of read_pressure writes the start-conversion command, waits,
\* then reads pressure MSB, pressure LSB, temperature MSB and temperature LSB,
\* each at most once; it stops at the first operation that fails and returns
\* an error; and it leaves the calibration coefficients of the sensor as they
\* were, whether it succeeds or fails.
C12_ReadPressureOrder ==
    [][(pc = "read_baro") =>
          (/\ barometer' = barometer
           /\ barometer # None => ReadPressureOutcome(baro_log', pressure_reading')
           /\ barometer = None => (baro_log' = <<>> /\ pressure_reading' = None))]_vars

\* a read that failed at the temperature MSB, the sensor kept as it was
C12_Witness ==
    /\ pc = "read_motion"
    /\ barometer # None
    /\ pressure_reading = None
    /\ Len(baro_log) = 5
    /\ baro_log[5].reg = REGISTER_TEMP_MSB
    /\ ~baro_log[5].ok

\* C13: for every msb and lsb in 0..255 the decoded value is the two's
\* complement reading of the big-endian word msb*256 + lsb: the word itself
\* below 32768 and the word less 65536 from there on; it lies in
\* -32768..32767, and the word is recovered from it, so that no two pairs of
\* bytes decode to the same value.
C13_DecodeTwosComplement ==
    decoded # None =>
        LET word == buffer[1] * 256 + buffer[2]
            v == decoded[1]
        IN  /\ v = IF word < 32768 THEN word ELSE word - 65536
            /\ v \in -32768..32767
            /\ (v + 65536) % 65536 = word
            /\ word \div 256 = buffer[1] /\ word % 256 = buffer[2]

\* a word with the sign bit set was decoded to a negative value
C13_Witness ==
    /\ decoded # None
    /\ buffer = <<128, 1>>
    /\ decoded[1] = -32767

====
